---- MODULE Spec2Model ----
(***************************************************************************)
(* Model of Retrospective/NPNM.py: nonparametric normative modelling.      *)
(*                                                                         *)
(* The script is one sequential pass: build the age grid, fit a local      *)
(* regression at every grid point from the control rows, score every row   *)
(* against the nearest grid point, bucket the scores into ranks.           *)
(*                                                                         *)
(* Numbers.  Ages are integers (days).  The score column is the column     *)
(* after the global normalisation of line 24; a score is an integer or     *)
(* NaN.  All arithmetic is exact: a value is a record                      *)
(*    [k |-> "nan"]                 NaN                                    *)
(*    [k |-> "inf",  n |-> +-1]     +-infinity                             *)
(*    [k |-> "fin",  n, d]          the rational n/d, reduced, d > 0       *)
(*    [k |-> "sqrt", n, d]          sqrt(n/d), reduced, n >= 0, d > 0      *)
(*    [k |-> "quot", n, d, qn, qd]  (n/d) / sqrt(qn/qd), qn > 0            *)
(* so that a standard error (a square root) and a standardized deviation   *)
(* (a rational divided by a square root) are represented without           *)
(* rounding.  Floating-point rounding itself is not modelled.  Products    *)
(* too large for a 32-bit integer are formed limb by limb.                 *)
(*                                                                         *)
(* numpy indexes from 0, TLA+ sequences from 1: index j of the source is   *)
(* index j+1 here.                                                         *)
(***************************************************************************)
EXTENDS Integers, Sequences, FiniteSets, TLC

(***************************************************************************)
(* Bounds of the model.                                                    *)
(***************************************************************************)
MaxRows == 2
MaxAgeK == 2
MaxScore == 1
MaxNum == 9
MaxDen == 4
MaxProbe == 12

(***************************************************************************)
(* Program constants, lines 33-34.                                         *)
(***************************************************************************)
griddef_age == 360 \div 2
kernel_age == griddef_age * 5

\* Input ages are multiples of half a kernel width; every difference between
\* an age and a grid point is then a multiple of half a grid step.
AgeQuantum == kernel_age \div 2
XUnit == griddef_age \div 2

(***************************************************************************)
(* Exact numbers.                                                          *)
(***************************************************************************)
Abs(a) == IF a < 0 THEN -a ELSE a
Sgn(a) == IF a < 0 THEN -1 ELSE IF a > 0 THEN 1 ELSE 0

RECURSIVE GCD(_, _)
GCD(a, b) == IF b = 0 THEN a ELSE GCD(b, a % b)

NaN == [k |-> "nan", n |-> 0, d |-> 1]
Inf(s) == [k |-> "inf", n |-> s, d |-> 1]
Rat(n, d) ==
    LET s == IF d < 0 THEN -1 ELSE 1
        g == GCD(Abs(n), Abs(d))
    IN  [k |-> "fin", n |-> (s * n) \div g, d |-> (s * d) \div g]
\* sqrt(n / d), n >= 0, d > 0
SSqrt(n, d) ==
    LET g == GCD(Abs(n), d)
    IN  [k |-> "sqrt", n |-> n \div g, d |-> d \div g]
\* the square root of a non-negative rational, NaN of NaN
Sqrt(v) == IF v.k = "nan" THEN NaN ELSE SSqrt(v.n, v.d)

\* (n/d) / sqrt(qn/qd) for a rational e = n/d and a square root s
Quot(e, s) == [k |-> "quot", n |-> e.n, d |-> e.d, qn |-> s.n, qd |-> s.d]

IsNaN(v) == v.k = "nan"
IsZero(v) == v.k \in {"fin", "sqrt"} /\ v.n = 0

\* Natural numbers of any size: little-endian sequences of limbs below Base.
Base == 10000
BigOf(a) == <<a % Base, (a \div Base) % Base, a \div (Base * Base)>>
Limb(A, j) == IF j \in 1..Len(A) THEN A[j] ELSE 0
RECURSIVE CarryFrom(_, _, _)
CarryFrom(cols, j, c) ==
    IF j > Len(cols) THEN <<>>
    ELSE LET t == cols[j] + c
         IN  <<t % Base>> \o CarryFrom(cols, j + 1, t \div Base)
\* the product of A and a natural number b
BigTimes(A, b) ==
    LET B == BigOf(b)
    IN  CarryFrom([j \in 1..(Len(A) + 3) |->
                      Limb(A, j) * B[1] + Limb(A, j - 1) * B[2]
                          + Limb(A, j - 2) * B[3]], 1, 0)
RECURSIVE BigProd(_)
BigProd(fs) ==
    IF fs = <<>> THEN <<1>> ELSE BigTimes(BigProd(Tail(fs)), Abs(Head(fs)))
\* -1, 0, 1 as A is less than, equal to, greater than B
RECURSIVE BigCmpFrom(_, _, _)
BigCmpFrom(A, B, j) ==
    IF j = 0 THEN 0
    ELSE IF Limb(A, j) < Limb(B, j) THEN -1
    ELSE IF Limb(A, j) > Limb(B, j) THEN 1
    ELSE BigCmpFrom(A, B, j - 1)
BigCmp(A, B) == BigCmpFrom(A, B, IF Len(A) > Len(B) THEN Len(A) ELSE Len(B))

(***************************************************************************)
(* Lines 26-35: the age grid, x = np.arange(min_age, max_age + kernel_age,  *)
(* griddef_age).                                                           *)
(***************************************************************************)
MinAge(tbl) == CHOOSE a \in {tbl[r].age : r \in DOMAIN tbl} :
                   \A r \in DOMAIN tbl : a <= tbl[r].age
MaxAge(tbl) == CHOOSE a \in {tbl[r].age : r \in DOMAIN tbl} :
                   \A r \in DOMAIN tbl : a >= tbl[r].age

\* np.arange over integers: ceil((stop - start) / step) points from start
ArangeInclusive(start, stop, step) ==
    [j \in 1..(((stop - start) \div step) + 1) |-> start + (j - 1) * step]
Arange(start, stop, step) ==
    LET len == IF stop > start THEN (stop - start + step - 1) \div step ELSE 0
    IN  [j \in 1..len |-> start + (j - 1) * step]

Grid(tbl) == Arange(MinAge(tbl), MaxAge(tbl) + kernel_age, griddef_age)

(***************************************************************************)
(* Lines 37-39: the control sample, rows <<age, score>> in table order.    *)
(***************************************************************************)
RECURSIVE Controls(_)
Controls(tbl) ==
    IF tbl = <<>> THEN <<>>
    ELSE LET r == Head(tbl)
         IN  (IF r.ctr THEN << <<r.age, r.score>> >> ELSE <<>>)
                 \o Controls(Tail(tbl))

(***************************************************************************)
(* Lines 48-52: the kernel window of grid age xx.                          *)
(***************************************************************************)
\* w = (abs(d - mu) < kernel_age) * 1.   (one row per control, one column)
WeightsOutside(s, xx) ==
    [r \in 1..Len(s) |-> IF Abs(s[r][1] - xx) > kernel_age THEN 1 ELSE 0]
Weights(s, xx) ==
    [r \in 1..Len(s) |-> IF Abs(s[r][1] - xx) < kernel_age THEN 1 ELSE 0]

\* idx = np.argwhere(w).flatten().  w has shape (n, 1), so argwhere returns
\* one pair [row, 0] per non-zero weight, and flatten() strings the pairs
\* together: row, 0, row, 0, ...  The column index 0 then selects the first
\* control row (index 1 here).
RECURSIVE ArgwhereFlatten(_, _)
ArgwhereFlatten(w, r) ==
    IF r > Len(w) THEN <<>>
    ELSE (IF w[r] # 0 THEN <<r, 1>> ELSE <<>>) \o ArgwhereFlatten(w, r + 1)

Idx(s, xx) == ArgwhereFlatten(Weights(s, xx), 1)
\* YY = sel[idx, 1]; XX = sel[idx, 0] - mu
YYof(s, xx) == LET idx == Idx(s, xx) IN [j \in 1..Len(idx) |-> s[idx[j]][2]]
XXof(s, xx) == LET idx == Idx(s, xx) IN [j \in 1..Len(idx) |-> s[idx[j]][1] - xx]

(***************************************************************************)
(* Lines 53-61: the local fit.  statsmodels is not part of the repository; *)
(* the calls are modelled by what they compute.                            *)
(*   sm.tools.add_constant(XX), has_constant='skip': an empty XX raises    *)
(*     (a reduction over no rows); a column that is one non-zero constant  *)
(*     is returned as it is, with no column of ones added.                 *)
(*   sm.WLS(..., missing='drop', weight=..., hasconst=True).fit(): the     *)
(*     keyword `weight` is not the `weights` parameter, so every remaining *)
(*     row has weight 1; rows whose score is NaN are dropped; no row left  *)
(*     raises; the parameters are the least-squares solution of minimum    *)
(*     norm (pseudo-inverse), so a rank-deficient design does not raise.   *)
(*   wls_prediction_std(mod, [0, 0]): raises when the design has one       *)
(*     column; otherwise sqrt(mse_resid), mse_resid = ssr / (nobs - rank). *)
(*   mod.conf_int()[0, :]: NaN with no residual degree of freedom.         *)
(***************************************************************************)
RECURSIVE SumOver(_, _)
SumOver(f, S) ==
    IF S = {} THEN 0
    ELSE LET e == CHOOSE e \in S : TRUE IN f[e] + SumOver(f, S \ {e})

AddConstant(XX) ==
    IF Len(XX) = 0 THEN "raise"
    ELSE IF XX[1] # 0 /\ \A j \in 1..Len(XX) : XX[j] = XX[1] THEN "skip"
    ELSE "prepend"

\* the two ends of the confidence interval of the intercept
ConfInt(m, mse, df) ==
    IF df <= 0 \/ IsNaN(mse) THEN <<NaN, NaN>>
    ELSE << [k |-> "ci", side |-> -1, c |-> m, v |-> mse, df |-> df],
            [k |-> "ci", side |-> 1, c |-> m, v |-> mse, df |-> df] >>

Raised(at, m) == [raise |-> at, m |-> m, std |-> NaN, ci |-> <<NaN, NaN>>]
Fitted(m, mse, df) ==
    [raise |-> "none", m |-> m, std |-> Sqrt(mse), ci |-> ConfInt(m, mse, df)]

\* The outcome of one pass through the try block: where it raised ("fit":
\* before zm[i] is written, "pred": after, "none"), and the values written.
\* The sums are taken over x / XUnit: intercept and residuals of a
\* least-squares line do not change when the regressor is rescaled.
WLSFit(XX, YY) ==
    LET ac == AddConstant(XX)
        K == {j \in 1..Len(YY) : ~IsNaN(YY[j])}
        n == Cardinality(K)
        xs == [j \in K |-> XX[j] \div XUnit]
        Sx == SumOver(xs, K)
        Sy == SumOver([j \in K |-> YY[j].n], K)
        Sxx == SumOver([j \in K |-> xs[j] * xs[j]], K)
        Sxy == SumOver([j \in K |-> xs[j] * YY[j].n], K)
        Syy == SumOver([j \in K |-> YY[j].n * YY[j].n], K)
        det == n * Sxx - Sx * Sx
        c == XX[CHOOSE j \in K : TRUE]
        aN == Sxx * Sy - Sx * Sxy
        bN == n * Sxy - Sx * Sy
    IN  IF ac = "raise" \/ n = 0 THEN Raised("fit", NaN)
        ELSE IF ac = "skip" THEN
            \* design [x], x constant: params[0] is the slope through 0
            Raised("pred", Rat(Sy, n * c))
        ELSE IF det # 0 THEN
            \* design [1, x] of rank 2
            Fitted(Rat(aN, det),
                   IF n > 2 THEN Rat(Syy * det - aN * Sy - bN * Sxy, det * (n - 2))
                   ELSE NaN,
                   n - 2)
        ELSE
            \* design [1, c] of rank 1: minimum-norm solution
            Fitted(Rat(Sy, n * (1 + c * c)),
                   IF n > 1 THEN Rat(n * Syy - Sy * Sy, n * (n - 1)) ELSE NaN,
                   n - 1)

Outcome(s, xx) == WLSFit(XXof(s, xx), YYof(s, xx))

\* zm[i] = v: one slot of an array is written
WriteSlotAndAfter(arr, j, v) == [q \in DOMAIN arr |-> IF q >= j THEN v ELSE arr[q]]
WriteSlot(arr, j, v) == [arr EXCEPT ![j] = v]

\* line 62: a bare except catches whatever the try block raised, at "fit"
\* (lines 54-57) or at "pred" (lines 59-61); an exception that is not
\* caught ends the run
Catches(at) == TRUE
Handler(at) == IF Catches(at) THEN "except" ELSE "abort"

\* lines 63-65: the except branch, zm[i] = zci[i] = zstd[i] = np.nan
ExceptBranchKeepMean(m, c, s, j) ==
    [zm |-> m, zci |-> WriteSlot(c, j, <<NaN, NaN>>), zstd |-> WriteSlot(s, j, NaN)]
ExceptBranch(m, c, s, j) ==
    [zm |-> WriteSlot(m, j, NaN),
     zci |-> WriteSlot(c, j, <<NaN, NaN>>),
     zstd |-> WriteSlot(s, j, NaN)]

(***************************************************************************)
(* Lines 68-74: normative_model.                                           *)
(***************************************************************************)
\* np.argmin: the first index at which the minimum is attained
RECURSIVE ArgMinFrom(_, _, _)
ArgMinFrom(dist, j, best) ==
    IF j > Len(dist) THEN best
    ELSE ArgMinFrom(dist, j + 1, IF dist[j] < dist[best] THEN j ELSE best)
RECURSIVE ArgMinLastFrom(_, _, _)
ArgMinLastFrom(dist, j, best) ==
    IF j > Len(dist) THEN best
    ELSE ArgMinLastFrom(dist, j + 1, IF dist[j] <= dist[best] THEN j ELSE best)
ArgMinLast(dist) == ArgMinLastFrom(dist, 2, 1)
ArgMin(dist) == ArgMinFrom(dist, 2, 1)

\* idage = np.argmin(np.abs(r['age'] - x))
NearestIndex(age, grid) == ArgMin([j \in 1..Len(grid) |-> Abs(age - grid[j])])

\* (r['score'] - m) / std in IEEE arithmetic: NaN propagates, a non-zero
\* numerator over zero is an infinity, zero over zero is NaN.
Divide(score, m, std) ==
    IF IsNaN(score) \/ IsNaN(m) \/ IsNaN(std) THEN NaN
    ELSE LET e == Rat(score.n * m.d - m.n * score.d, score.d * m.d)
         IN  IF IsZero(std) THEN (IF e.n = 0 THEN NaN ELSE Inf(Sgn(e.n)))
             ELSE Quot(e, std)

normative_model(r, grid, means, stds) ==
    LET id == NearestIndex(r.age, grid)
    IN  Divide(r.score, means[id], stds[id])

(***************************************************************************)
(* Lines 80-85: the rank cascade.  A comparison with NaN is false.         *)
(***************************************************************************)
\* v * v compared with t * t, for v = (n/d) / sqrt(qn/qd): -1, 0, 1
CmpSquares(v, t) ==
    BigCmp(BigProd(<<v.n, v.n, v.qd>>), BigProd(<<t, t, v.d, v.d, v.qn>>))
\* v <= t for an integer threshold t # 0
Le(v, t) ==
    CASE v.k = "nan" -> FALSE
      [] v.k = "inf" -> v.n < 0
      [] OTHER -> IF t < 0 THEN v.n < 0 /\ CmpSquares(v, t) >= 0
                  ELSE v.n <= 0 \/ CmpSquares(v, t) <= 0
Gt(v, t) == v.k # "nan" /\ ~Le(v, t)
Lt(v, t) ==
    CASE v.k = "nan" -> FALSE
      [] v.k = "inf" -> v.n < 0
      [] OTHER -> IF t < 0 THEN v.n < 0 /\ CmpSquares(v, t) > 0
                  ELSE v.n <= 0 \/ CmpSquares(v, t) < 0

\* the row mask of the rule on line 80 + q
RuleMaskStrict(q, v) ==
    CASE q = 1 -> Lt(v, -2)
      [] q = 2 -> Gt(v, -2) /\ Lt(v, -1)
      [] q = 3 -> Gt(v, -1) /\ Lt(v, 1)
      [] q = 4 -> Gt(v, 1) /\ Lt(v, 2)
      [] q = 5 -> Gt(v, 2)
RuleMask(q, v) ==
    CASE q = 1 -> Le(v, -2)
      [] q = 2 -> Gt(v, -2) /\ Le(v, -1)
      [] q = 3 -> Gt(v, -1) /\ Le(v, 1)
      [] q = 4 -> Gt(v, 1) /\ Le(v, 2)
      [] q = 5 -> Gt(v, 2)
RuleRank(q) == Rat(q - 3, 1)

\* data.loc[mask, 'rank'] = value: the rows outside the mask keep what the
\* column held (NaN when the column is new)
ApplyRule(q, nm, rk) ==
    [r \in DOMAIN rk |-> IF RuleMask(q, nm[r]) THEN RuleRank(q) ELSE rk[r]]

(***************************************************************************)
(* State.                                                                  *)
(*   data    the table read on line 21, score column as after line 24: a   *)
(*           sequence of rows [age, score, ctr, rank0]; rank0 is what the  *)
(*           input holds in a column named rank (NaN: no such column)      *)
(*   pc      the statement the script is at ("abort": ended by an          *)
(*           exception nothing caught)                                     *)
(*   x, sel  the age grid and the control sample                           *)
(*   zm, zstd, zci   the reference curve                                   *)
(*   i       the grid index of the loop of line 47                         *)
(*   idage, nmodel   per row: the grid index looked up, the column nmodel  *)
(*   rank    the column rank                                               *)
(*   k       the number of rank rules (lines 81-85) that have run          *)
(***************************************************************************)
VARIABLES data, pc, x, sel, zm, zstd, zci, i, idage, nmodel, rank, k

vars == <<data, pc, x, sel, zm, zstd, zci, i, idage, nmodel, rank, k>>

Ages == {a * AgeQuantum : a \in 0..MaxAgeK}
Scores == {Rat(s, 1) : s \in -MaxScore..MaxScore} \cup {NaN}
PriorRanks == {NaN, Rat(0, 1)}

Row(a, s, c, p) == [age |-> a, score |-> s, ctr |-> c, rank0 |-> p]

\* Line 24 leaves a score column whose non-missing values have mean 0 and
\* standard deviation 1, or, when they are all equal, no defined value at
\* all.  The model holds the column in units of any positive factor (the
\* standardized deviation and the rank do not change with the factor): the
\* non-missing scores are integers of sum 0, not all 0, or there is none.
Normalised(ss) ==
    LET D == {r \in DOMAIN ss : ~IsNaN(ss[r])}
    IN  \/ D = {}
        \/ /\ SumOver([r \in D |-> ss[r].n], D) = 0
           /\ \E r \in D : ss[r].n # 0

Init ==
    /\ \E n \in 1..MaxRows, p \in PriorRanks :
         \E as \in [1..n -> Ages], ss \in [1..n -> Scores], cs \in [1..n -> BOOLEAN] :
            /\ Normalised(ss)
            /\ data = [r \in 1..n |-> Row(as[r], ss[r], cs[r], p)]
    /\ pc = "start"
    /\ x = <<>>
    /\ sel = <<>>
    /\ zm = <<>>
    /\ zstd = <<>>
    /\ zci = <<>>
    /\ i = 0
    /\ idage = <<>>
    /\ nmodel = <<>>
    /\ rank = [r \in DOMAIN data |-> data[r].rank0]
    /\ k = 0

\* the statement after iteration j of the loop: the next grid point, or,
\* the grid exhausted, line 78
AfterIteration(j) == IF j >= Len(x) THEN "score" ELSE "loop"

\* lines 26-44: grid, control sample, zero-initialised curve
Setup ==
    /\ pc = "start"
    /\ x' = Grid(data)
    /\ sel' = Controls(data)
    /\ zm' = [j \in 1..Len(x') |-> Rat(0, 1)]
    /\ zstd' = [j \in 1..Len(x') |-> Rat(0, 1)]
    /\ zci' = [j \in 1..Len(x') |-> <<Rat(0, 1), Rat(0, 1)>>]
    /\ i' = 1
    /\ pc' = "loop"
    /\ UNCHANGED <<data, idage, nmodel, rank, k>>

\* lines 48-58: window, fit, zm[i] = mod.params[0]
TryFit ==
    /\ pc = "loop"
    /\ LET o == Outcome(sel, x[i])
       IN  IF o.raise = "fit"
           THEN pc' = Handler("fit") /\ UNCHANGED zm
           ELSE pc' = "pred" /\ zm' = WriteSlot(zm, i, o.m)
    /\ UNCHANGED <<data, x, sel, zstd, zci, i, idage, nmodel, rank, k>>

\* lines 59-61: prediction error and confidence interval
Predict ==
    /\ pc = "pred"
    /\ LET o == Outcome(sel, x[i])
       IN  IF o.raise = "pred"
           THEN pc' = Handler("pred") /\ UNCHANGED <<zci, zstd, i>>
           ELSE /\ zci' = WriteSlot(zci, i, o.ci)
                /\ zstd' = WriteSlot(zstd, i, o.std)
                /\ i' = i + 1
                /\ pc' = AfterIteration(i)
    /\ UNCHANGED <<data, x, sel, zm, idage, nmodel, rank, k>>

\* lines 62-65: the except branch
Except ==
    /\ pc = "except"
    /\ LET e == ExceptBranch(zm, zci, zstd, i)
       IN  zm' = e.zm /\ zci' = e.zci /\ zstd' = e.zstd
    /\ i' = i + 1
    /\ pc' = AfterIteration(i)
    /\ UNCHANGED <<data, x, sel, idage, nmodel, rank, k>>

\* line 78: normative_model applied to every row
Score ==
    /\ pc = "score"
    /\ idage' = [r \in DOMAIN data |-> NearestIndex(data[r].age, x)]
    /\ nmodel' = [r \in DOMAIN data |-> normative_model(data[r], x, zm, zstd)]
    /\ pc' = "rank"
    /\ UNCHANGED <<data, x, sel, zm, zstd, zci, i, rank, k>>

\* lines 81-85: one rule of the cascade
RankRule ==
    /\ pc = "rank"
    /\ rank' = ApplyRule(k + 1, nmodel, rank)
    /\ k' = k + 1
    /\ pc' = IF k + 1 = 5 THEN "done" ELSE "rank"
    /\ UNCHANGED <<data, x, sel, zm, zstd, zci, i, idage, nmodel>>

Next == Setup \/ TryFit \/ Predict \/ Except \/ Score \/ RankRule

Spec == Init /\ [][Next]_vars

(***************************************************************************)
(* The subject scorer on its own: one row whose age is any probe age, also *)
(* outside the grid, looked up in a grid built as on line 35.              *)
(***************************************************************************)
InitArg ==
    /\ \E lo \in Ages, hi \in Ages, q \in -MaxProbe..MaxProbe, e \in BOOLEAN :
         /\ lo <= hi
         /\ x = Arange(lo, hi + kernel_age, griddef_age)
         /\ data = << Row((IF e THEN x[Len(x)] ELSE x[1]) + q * XUnit,
                          NaN, FALSE, NaN) >>
    /\ pc = "score"
    /\ sel = <<>>
    /\ zm = [j \in 1..Len(x) |-> NaN]
    /\ zstd = [j \in 1..Len(x) |-> NaN]
    /\ zci = [j \in 1..Len(x) |-> <<NaN, NaN>>]
    /\ i = Len(x) + 1
    /\ idage = <<>>
    /\ nmodel = <<>>
    /\ rank = <<NaN>>
    /\ k = 0

SpecArg == InitArg /\ [][Score]_vars

(***************************************************************************)
(* The rank classifier on its own: one row whose standardized deviation is *)
(* any value n / sqrt(q), an infinity or NaN, in a new rank column.        *)
(***************************************************************************)
Deviations ==
    {Quot(Rat(n, 1), SSqrt(q, 1)) : n \in -MaxNum..MaxNum, q \in 1..MaxDen}
        \cup {Inf(1), Inf(-1), NaN}

InitRank ==
    /\ \E v \in Deviations : nmodel = <<v>>
    /\ data = << Row(0, NaN, FALSE, NaN) >>
    /\ pc = "rank"
    /\ x = <<>>
    /\ sel = <<>>
    /\ zm = <<>>
    /\ zstd = <<>>
    /\ zci = <<>>
    /\ i = 0
    /\ idage = <<>>
    /\ rank = <<NaN>>
    /\ k = 0

SpecRank == InitRank /\ [][RankRule]_vars

(***************************************************************************)
(* C1.  The rank classifier gives every defined standardized deviation v   *)
(* exactly one rank: v <= -2 gives -2, -2 < v <= -1 gives -1,              *)
(* -1 < v <= 1 gives 0, 1 < v <= 2 gives 1, v > 2 gives 2; exactly -2      *)
(* gives -2 and exactly +2 gives +1; and once a rule has set the rank, no  *)
(* later rule changes it.  (For v = (n/d) / sqrt(qn/qd), v * v is          *)
(* SqNum / SqDen; v <= -2 iff n < 0 and SqNum >= 4 SqDen, and so on.)      *)
(***************************************************************************)
SqNum(v) == v.n * v.n * v.qd
SqDen(v) == v.d * v.d * v.qn

BucketOf(v) ==
    IF v.k = "inf" THEN (IF v.n < 0 THEN -2 ELSE 2)
    ELSE IF v.n < 0 /\ SqNum(v) >= 4 * SqDen(v) THEN -2
    ELSE IF v.n < 0 /\ SqNum(v) >= SqDen(v) THEN -1
    ELSE IF v.n <= 0 \/ SqNum(v) <= SqDen(v) THEN 0
    ELSE IF SqNum(v) <= 4 * SqDen(v) THEN 1
    ELSE 2

RankClassified ==
    /\ [](pc = "done" =>
            \A r \in DOMAIN nmodel :
                LET v == nmodel[r]
                IN  /\ ~IsNaN(v) => rank[r] = Rat(BucketOf(v), 1)
                    /\ v.k = "quot" /\ SqNum(v) = 4 * SqDen(v) =>
                           rank[r] = Rat(IF v.n < 0 THEN -2 ELSE 1, 1))
    /\ [][\A r \in DOMAIN rank : ~IsNaN(rank[r]) => rank'[r] = rank[r]]_vars

RankBoundaryReached ==
    /\ pc = "done"
    /\ nmodel[1] = Quot(Rat(2, 1), SSqrt(1, 1))
    /\ rank[1] = Rat(1, 1)

(***************************************************************************)
(* C3.  For every subject age, also below the first and above the last     *)
(* grid age, the index looked up is a valid grid index, minimises          *)
(* |age - grid[j]|, is the earliest such index (on a tie the lower index), *)
(* and is the boundary index for an age outside the grid.                  *)
(***************************************************************************)
NearestIsEarliestMinimum ==
    pc \in {"rank", "done"} =>
        \A r \in DOMAIN data :
            LET a == data[r].age
                id == idage[r]
            IN  /\ id \in 1..Len(x)
                /\ \A j \in 1..Len(x) : Abs(a - x[id]) <= Abs(a - x[j])
                /\ \A j \in 1..(id - 1) : Abs(a - x[j]) > Abs(a - x[id])
                /\ a <= x[1] => id = 1
                /\ a >= x[Len(x)] => id = Len(x)

TieReached ==
    /\ pc = "rank"
    /\ \E j \in 1..(Len(x) - 1) :
         /\ idage[1] = j
         /\ Abs(data[1].age - x[j]) = Abs(data[1].age - x[j + 1])

(***************************************************************************)
(* C7.  The age grid is a non-empty sequence that starts at min_age, has   *)
(* constant spacing griddef_age, and holds exactly the values              *)
(* min_age + q * griddef_age below max_age + kernel_age, min_age and       *)
(* max_age taken over all rows.  Stated of the grid as the setup leaves it *)
(* and as it stands when the run ends.                                     *)
(***************************************************************************)
GridIsArithmetic ==
    (pc = "loop" /\ i = 1) \/ pc = "done" =>
        LET lo == MinAge(data)
            stop == MaxAge(data) + kernel_age
        IN  /\ Len(x) >= 1
            /\ x[1] = lo
            /\ \A r \in DOMAIN data : lo <= data[r].age /\ data[r].age + kernel_age <= stop
            /\ \A j \in 1..(Len(x) - 1) : x[j + 1] - x[j] = griddef_age
            /\ {x[j] : j \in DOMAIN x}
                 = {v \in lo..(stop - 1) : (v - lo) % griddef_age = 0}

GridStopExcluded ==
    /\ pc = "loop"
    /\ (MaxAge(data) + kernel_age - MinAge(data)) % griddef_age = 0
    /\ MaxAge(data) > MinAge(data)
    /\ x[Len(x)] = MaxAge(data) + kernel_age - griddef_age

(***************************************************************************)
(* C10.  For every control row, the grid point looked up for its age is    *)
(* at most half a grid step, hence less than kernel_age, away from that    *)
(* age; the control's own observation has weight 1 in that grid point's    *)
(* window, and the window is not empty.                                    *)
(***************************************************************************)
ControlInOwnWindow ==
    pc \in {"rank", "done"} =>
        \A r \in DOMAIN data :
            data[r].ctr =>
                LET a == data[r].age
                    xx == x[idage[r]]
                IN  /\ 2 * Abs(a - xx) <= griddef_age
                    /\ Abs(a - xx) < kernel_age
                    /\ \E s \in DOMAIN sel :
                         /\ sel[s] = <<a, data[r].score>>
                         /\ Weights(sel, xx)[s] = 1
                    /\ Idx(sel, xx) # <<>>

ControlOffGridReached ==
    /\ pc = "done"
    /\ \E r \in DOMAIN data :
         /\ data[r].ctr
         /\ 2 * Abs(data[r].age - x[idage[r]]) = griddef_age

(***************************************************************************)
(* What the loop of line 47 leaves in slot j of the curve, as a function   *)
(* of the control sample and the grid age alone; the whole run as a        *)
(* function of the table.                                                  *)
(***************************************************************************)
CurveAt(s, xx) ==
    LET o == Outcome(s, xx)
    IN  IF o.raise # "none" THEN [m |-> NaN, std |-> NaN, ci |-> <<NaN, NaN>>]
        ELSE [m |-> o.m, std |-> o.std, ci |-> o.ci]

RECURSIVE Cascade(_, _, _)
Cascade(q, nm, rk) ==
    IF q > 5 THEN rk ELSE Cascade(q + 1, nm, ApplyRule(q, nm, rk))

RunOn(tbl) ==
    LET g == Grid(tbl)
        s == Controls(tbl)
        m == [j \in DOMAIN g |-> CurveAt(s, g[j]).m]
        sd == [j \in DOMAIN g |-> CurveAt(s, g[j]).std]
        nm == [r \in DOMAIN tbl |-> normative_model(tbl[r], g, m, sd)]
    IN  [nmodel |-> nm,
         rank |-> Cascade(1, nm, [r \in DOMAIN tbl |-> tbl[r].rank0])]

\* the iteration of grid index j is over
Processed(j) ==
    \/ pc \in {"score", "rank", "done"}
    \/ pc \in {"loop", "pred", "except"} /\ j < i

AllUndefined(j) ==
    IsNaN(zm[j]) /\ IsNaN(zstd[j]) /\ IsNaN(zci[j][1]) /\ IsNaN(zci[j][2])

\* the window the scorer's grid point has for row r holds no control
EmptyWindow(r) == \A s \in DOMAIN sel : Weights(sel, x[idage[r]])[s] = 0

(***************************************************************************)
(* C2.  A subject whose age maps to a grid point with an empty control     *)
(* window ends the run with standardized deviation and rank both           *)
(* undefined, whatever the input table contained.                          *)
(***************************************************************************)
EmptyWindowAllUndefined ==
    pc = "done" =>
        \A r \in DOMAIN data :
            EmptyWindow(r) => IsNaN(nmodel[r]) /\ IsNaN(rank[r])

(***************************************************************************)
(* C2, what the code does.  Such a subject's standardized deviation is     *)
(* undefined and no rule of the cascade writes its rank: the rank is what  *)
(* the input table held for it, undefined only when the input had no rank  *)
(* column.                                                                 *)
(***************************************************************************)
EmptyWindowNoRankAssigned ==
    pc \in {"rank", "done"} =>
        \A r \in DOMAIN data :
            EmptyWindow(r) =>
                /\ IsNaN(nmodel[r])
                /\ rank[r] = data[r].rank0
                /\ IsNaN(data[r].rank0) => IsNaN(rank[r])

EmptyWindowReached ==
    /\ pc = "done"
    /\ \E r \in DOMAIN data :
         /\ EmptyWindow(r)
         /\ ~IsNaN(data[r].score)
         /\ sel # <<>>
         /\ IsNaN(rank[r])

(***************************************************************************)
(* C4.  A zero local standard error at the grid index looked up makes the  *)
(* standardized deviation NaN.                                             *)
(***************************************************************************)
ZeroStdGivesNaN ==
    pc \in {"rank", "done"} =>
        \A r \in DOMAIN data :
            IsZero(zstd[idage[r]]) => IsNaN(nmodel[r])

(***************************************************************************)
(* C4, what the code does.  With a zero local standard error the           *)
(* standardized deviation is NaN when the score is missing or equals the   *)
(* local mean, and otherwise the infinity with the sign of                 *)
(* score - local mean, which the cascade ranks -2 or +2.                   *)
(***************************************************************************)
ZeroStdGivesNaNOrInfinity ==
    pc \in {"rank", "done"} =>
        \A r \in DOMAIN data :
            LET m == zm[idage[r]]
                sc == data[r].score
                diff == sc.n * m.d - m.n * sc.d
            IN  IsZero(zstd[idage[r]]) =>
                    /\ DOMAIN nmodel = DOMAIN data
                    /\ nmodel[r].k \in {"nan", "inf"}
                    /\ IsNaN(nmodel[r]) <=> (IsNaN(sc) \/ IsNaN(m) \/ diff = 0)
                    /\ ~IsNaN(nmodel[r]) => nmodel[r] = Inf(Sgn(diff))
                    /\ pc = "done" /\ ~IsNaN(nmodel[r]) =>
                           rank[r] = Rat(2 * Sgn(diff), 1)

\* the zero comes from a full-rank fit: two controls of different ages and
\* scores lie on one line
ZeroStdInfinityReached ==
    /\ pc = "done"
    /\ \E r \in DOMAIN data :
         /\ IsZero(zstd[idage[r]])
         /\ nmodel[r] = Inf(-1)
         /\ rank[r] = Rat(-2, 1)
         /\ \E s \in DOMAIN sel, q \in DOMAIN sel :
              /\ sel[s][1] # sel[q][1]
              /\ Weights(sel, x[idage[r]])[s] = 1
              /\ Weights(sel, x[idage[r]])[q] = 1
              /\ ~IsNaN(sel[s][2]) /\ ~IsNaN(sel[q][2])

(***************************************************************************)
(* C5.  A degenerate local fit (empty window, singular design matrix,      *)
(* fewer than two non-missing observations) leaves the grid point's local  *)
(* mean, standard error and confidence interval undefined.                 *)
(***************************************************************************)
Degenerate(j) ==
    LET XX == XXof(sel, x[j])
        YY == YYof(sel, x[j])
        K == {q \in 1..Len(YY) : ~IsNaN(YY[q])}
    IN  \/ Len(XX) = 0
        \/ \A a \in K, b \in K : XX[a] = XX[b]
        \/ Cardinality(K) < 2

DegenerateFitUndefined ==
    pc = "score" => \A j \in DOMAIN x : Degenerate(j) => AllUndefined(j)

(***************************************************************************)
(* C5, what the code does.  A local fit that raises (empty window, no non- *)
(* missing observation in the window, or a window whose centred ages are   *)
(* one non-zero constant) is caught at its grid point: local mean,         *)
(* standard error and confidence interval become undefined; the loop goes  *)
(* on through every remaining grid point and the run reaches the scoring   *)
(* step.  A rank-deficient or exactly determined fit does not raise and is *)
(* not caught.                                                             *)
(***************************************************************************)
RaisingWindow(j) ==
    LET XX == XXof(sel, x[j])
        YY == YYof(sel, x[j])
    IN  \/ Len(XX) = 0
        \/ \A q \in 1..Len(YY) : IsNaN(YY[q])
        \/ XX[1] # 0 /\ \A q \in 1..Len(XX) : XX[q] = XX[1]

Measure ==
    3 * i + (CASE pc = "pred" -> 1 [] pc = "except" -> 2 [] OTHER -> 0)

RaisingFitCaught ==
    /\ [](pc \in {"loop", "score"} /\ i > 1 =>
            /\ RaisingWindow(i - 1) <=> Outcome(sel, x[i - 1]).raise # "none"
            /\ RaisingWindow(i - 1) => AllUndefined(i - 1))
    /\ [](pc = "score" =>
            /\ i = Len(x) + 1
            /\ \A j \in DOMAIN x : RaisingWindow(j) => AllUndefined(j))
    /\ [](pc \in {"loop", "pred", "except"} => i \in DOMAIN x)
    /\ [][(pc \in {"loop", "pred", "except"}) => (Measure' > Measure)]_vars
    /\ [](pc # "abort")

RaiseThenFitReached ==
    /\ pc = "score"
    /\ \E j \in DOMAIN x, q \in DOMAIN x :
         /\ j < q
         /\ RaisingWindow(j)
         /\ ~RaisingWindow(q)
         /\ ~IsNaN(zm[q])

(***************************************************************************)
(* C6.  Permuting the rows of the input table gives every subject,         *)
(* matched by its original row, the same standardized deviation and rank.  *)
(***************************************************************************)
\* two standardized deviations are the same number
SameValue(v, w) ==
    IF v.k = "quot" /\ w.k = "quot"
    THEN /\ Sgn(v.n) = Sgn(w.n)
         /\ BigCmp(BigProd(<<v.n, v.n, v.qd, w.d, w.d, w.qn>>),
                   BigProd(<<w.n, w.n, w.qd, v.d, v.d, v.qn>>)) = 0
    ELSE v = w

OrderIndependent ==
    pc = "done" =>
        \A f \in Permutations(DOMAIN data) :
            LET run == RunOn([j \in DOMAIN data |-> data[f[j]]])
            IN  \A j \in DOMAIN data :
                    /\ SameValue(run.nmodel[j], nmodel[f[j]])
                    /\ run.rank[j] = rank[f[j]]

\* RunOn is the run: on the table as given it returns what the run leaves
RunOnIsTheRun ==
    pc = "done" => RunOn(data) = [nmodel |-> nmodel, rank |-> rank]

FailedIterationUndefined ==
    pc # "start" =>
        \A j \in DOMAIN x :
            Processed(j) /\ (j = i - 1 \/ pc = "score") =>
                LET o == Outcome(sel, x[j])
                IN  /\ o.raise # "none" => AllUndefined(j)
                    /\ ~IsNaN(zm[j]) =>
                         /\ o.raise = "none"
                         /\ zstd[j] = o.std /\ zci[j] = o.ci

RaisedAfterWriteReached ==
    /\ pc = "loop"
    /\ i > 1
    /\ Outcome(sel, x[i - 1]).raise = "pred"
    /\ ~IsNaN(Outcome(sel, x[i - 1]).m)
    /\ AllUndefined(i - 1)
====
